---- MODULE Spec2Model ----
(***************************************************************************)
(* Invoice printing service: normalize line items, render a PDF, dispatch  *)
(* it to a local or cloud printer, respond.                                *)
(*                                                                         *)
(* Three deployments of the same server are modelled:                      *)
(*   "template" : src/unnamed/part_000 (puppeteer renderer with retries,   *)
(*                local dispatch through lp / powershell)                  *)
(*   "receipt"  : src/unnamed/part_001 (pdfkit renderer, local dispatch    *)
(*                through lpr / lp / powershell)                           *)
(*   "cloud"    : src/src/api/index.js (pdfkit renderer, PrintNode)        *)
(*                                                                         *)
(* JavaScript numbers are kept as an integer count of thousandths (mills)  *)
(* or NaN; strings that are parsed or produced by formatting are kept as   *)
(* sequences of one-character strings.                                     *)
(***************************************************************************)
EXTENDS Integers, Sequences, FiniteSets, TLC

(***************************************************************************)
(* JavaScript number and string primitives                                 *)
(***************************************************************************)
DigitChars == <<"0", "1", "2", "3", "4", "5", "6", "7", "8", "9">>

IsDigit(c) == \E i \in 1..10 : DigitChars[i] = c

DigitVal(c) == (CHOOSE i \in 1..10 : DigitChars[i] = c) - 1

NaN == [nan |-> TRUE, m |-> 0]

Num(m) == [nan |-> FALSE, m |-> m]

Abs(n) == IF n < 0 THEN -n ELSE n

RECURSIVE NatToChars(_)
NatToChars(n) ==
  IF n < 10 THEN <<DigitChars[n + 1]>>
  ELSE NatToChars(n \div 10) \o <<DigitChars[(n % 10) + 1]>>

\* Number::toString for a value with at most three decimals: no trailing zeros.
NumberToString(x) ==
  IF x.nan THEN <<"N", "a", "N">>
  ELSE LET a    == Abs(x.m)
           f    == a % 1000
           sign == IF x.m < 0 THEN <<"-">> ELSE <<>>
           d3   == <<DigitChars[(f \div 100) + 1], DigitChars[((f \div 10) % 10) + 1],
                     DigitChars[(f % 10) + 1]>>
           frac == IF f = 0 THEN <<>>
                   ELSE IF f % 100 = 0 THEN <<".">> \o SubSeq(d3, 1, 1)
                   ELSE IF f % 10 = 0 THEN <<".">> \o SubSeq(d3, 1, 2)
                   ELSE <<".">> \o d3
       IN sign \o NatToChars(a \div 1000) \o frac

\* A JSON value as it arrives in an item field.
StrV(s) == [t |-> "string", s |-> s, m |-> 0]

NumV(m) == [t |-> "number", s |-> <<>>, m |-> m]

Undefined == [t |-> "undefined", s |-> <<>>, m |-> 0]

\* ToString, applied by parseFloat and parseInt to their argument.
ToStringJS(v) ==
  IF v.t = "string" THEN v.s
  ELSE IF v.t = "number" THEN NumberToString(Num(v.m))
  ELSE IF v.t = "boolean"
  THEN (IF v.m = 1 THEN <<"t", "r", "u", "e">> ELSE <<"f", "a", "l", "s", "e">>)
  ELSE <<"u", "n", "d", "e", "f", "i", "n", "e", "d">>

RECURSIVE SkipWhite(_, _)
SkipWhite(s, i) ==
  IF i <= Len(s) /\ s[i] = " " THEN SkipWhite(s, i + 1) ELSE i

RECURSIVE DigitRunEnd(_, _)
DigitRunEnd(s, i) ==
  IF i <= Len(s) /\ IsDigit(s[i]) THEN DigitRunEnd(s, i + 1) ELSE i

\* The value of the digits s[i..j-1].
RECURSIVE DigitsVal(_, _, _)
DigitsVal(s, i, j) ==
  IF j <= i THEN 0 ELSE DigitsVal(s, i, j - 1) * 10 + DigitVal(s[j - 1])

\* The fraction digits s[i..j-1] in mills (digits past the third are dropped).
FracMills(s, i, j) ==
  LET d(k) == IF i + k < j THEN DigitVal(s[i + k]) ELSE 0
  IN d(0) * 100 + d(1) * 10 + d(2)

\* parseFloat on a string: leading blanks, a sign, the longest decimal prefix
\* (the strings here hold no exponent and no "Infinity").
ParseFloatChars(s) ==
  LET i0     == SkipWhite(s, 1)
      neg    == i0 <= Len(s) /\ s[i0] = "-"
      i1     == IF i0 <= Len(s) /\ s[i0] \in {"-", "+"} THEN i0 + 1 ELSE i0
      i2     == DigitRunEnd(s, i1)
      hasDot == i2 <= Len(s) /\ s[i2] = "."
      i3     == IF hasDot THEN DigitRunEnd(s, i2 + 1) ELSE i2
      nFrac  == IF hasDot THEN i3 - (i2 + 1) ELSE 0
      mag    == DigitsVal(s, i1, i2) * 1000
                + (IF hasDot THEN FracMills(s, i2 + 1, i3) ELSE 0)
  IN IF (i2 - i1) + nFrac = 0 THEN NaN
     ELSE Num(IF neg THEN -mag ELSE mag)

parseFloat(v) == ParseFloatChars(ToStringJS(v))

\* parseInt (radix 10): leading blanks, a sign, the longest run of digits
\* (the strings here hold no "0x" prefix).
ParseIntChars(s) ==
  LET i0  == SkipWhite(s, 1)
      neg == i0 <= Len(s) /\ s[i0] = "-"
      i1  == IF i0 <= Len(s) /\ s[i0] \in {"-", "+"} THEN i0 + 1 ELSE i0
      i2  == DigitRunEnd(s, i1)
      mag == DigitsVal(s, i1, i2) * 1000
  IN IF i2 = i1 THEN NaN ELSE Num(IF neg THEN -mag ELSE mag)

parseInt(v) == ParseIntChars(ToStringJS(v))

\* x || 0 on a number: NaN and 0 are falsy.
OrZero(x) == IF x.nan \/ x.m = 0 THEN Num(0) ELSE x

\* The product of two numbers of which one is an integer (exact in mills).
Mul(a, b) ==
  IF a.nan \/ b.nan THEN NaN
  ELSE IF a.m % 1000 = 0 THEN Num((a.m \div 1000) * b.m)
  ELSE IF b.m % 1000 = 0 THEN Num(a.m * (b.m \div 1000))
  ELSE Num((a.m * b.m) \div 1000)

Add(a, b) == IF a.nan \/ b.nan THEN NaN ELSE Num(a.m + b.m)

\* Number.prototype.toFixed(2): the sign of x, then |x| rounded to the nearest
\* hundredth, the larger one on a tie.
toFixed2(x) ==
  IF x.nan THEN <<"N", "a", "N">>
  ELSE LET n    == (Abs(x.m) + 5) \div 10
           sign == IF x.m < 0 THEN <<"-">> ELSE <<>>
       IN sign \o NatToChars(n \div 100)
               \o <<".", DigitChars[((n \div 10) % 10) + 1], DigitChars[(n % 10) + 1]>>

\* item.price.replace(/[^0-9.-]+/g, "")
IsNumericChar(c) == IsDigit(c) \/ c \in {".", "-"}

StripNonNumeric(s) == SelectSeq(s, IsNumericChar)


BoolV(b) == [t |-> "boolean", s |-> <<>>, m |-> IF b THEN 1 ELSE 0]

\* JavaScript truthiness of a JSON scalar, as tested by if (status), if (printerId).
Truthy(v) ==
  IF v.t = "string" THEN v.s # <<>>
  ELSE IF v.t = "number" THEN v.m # 0
  ELSE IF v.t = "boolean" THEN v.m = 1
  ELSE FALSE

(***************************************************************************)
(* Money normalizer: the items.map callback and the reduce of the handler  *)
(***************************************************************************)
ZeroString == <<"0", ".", "0", "0">>

itemWithSubtotal(item) ==
  LET price    == IF item.price.t = "string" /\ item.price.s # ZeroString
                  THEN ParseFloatChars(StripNonNumeric(item.price.s))
                  ELSE OrZero(parseFloat(item.price))
      quantity == OrZero(parseInt(item.quantity))
      subtotal == Mul(quantity, price)
  IN [name     |-> item.name,
      price    |-> toFixed2(price),
      quantity |-> NumberToString(quantity),
      subtotal |-> toFixed2(subtotal)]

itemsWithSubtotals(items) ==
  [i \in 1..Len(items) |-> itemWithSubtotal(items[i])]

RECURSIVE SumSubtotals(_, _)
SumSubtotals(iws, k) ==
  IF k = 0 THEN Num(0)
  ELSE Add(SumSubtotals(iws, k - 1), ParseFloatChars(iws[k].subtotal))

\* The total summed from quantity x price of the canonical items, not from
\* their subtotals.
RECURSIVE SumProducts(_, _)
SumProducts(iws, k) ==
  IF k = 0 THEN Num(0)
  ELSE Add(SumProducts(iws, k - 1),
           Mul(ParseIntChars(iws[k].quantity), ParseFloatChars(iws[k].price)))

calculatedTotalFromPrices(iws) == toFixed2(SumProducts(iws, Len(iws)))

\* The total without the .toFixed(2) that ends the reduce.
calculatedTotalUnfixed(iws) == NumberToString(SumSubtotals(iws, Len(iws)))

calculatedTotal(iws) == toFixed2(SumSubtotals(iws, Len(iws)))

(***************************************************************************)
(* State                                                                   *)
(***************************************************************************)
VARIABLES
  variant,      \* which server runs: "template", "receipt" or "cloud"
  tmpExists,    \* fs.existsSync("/tmp")
  platform,     \* os.platform()
  op,           \* the entry point being run
  pc,           \* its position
  body,         \* req.body of a POST /api/printing
  templateData, \* the handler's templateData, once built
  maxRetries,   \* generatePDF (template): its parameter
  retryCount,   \* generatePDF (template): let retryCount
  browser,      \* generatePDF (template): let browser (0 is null)
  completion,   \* how the try statement of the running attempt completes
  launched,     \* number of engine instances launched so far (ids 1..launched)
  open,         \* the engine instances that are running
  closeCalls,   \* per engine instance, the number of browser.close() calls
  attempts,     \* number of loop iterations entered
  genResult,    \* outcome of the generatePDF call
  tempFile,     \* printPDFBuffer: const tempFile (0 before it is set)
  files,        \* the files that exist in the file system
  execs,        \* the subprocesses executed, in order
  netCalls,     \* the HTTPS requests issued, in order
  execResult,   \* what execAsync(command) of the print command settled with
  httpResult,   \* what axios.post settled with
  ret,          \* outcome of the dispatch call
  response,     \* the HTTP response sent
  trace,        \* the steps taken, in order
  now,          \* Date.now(), in milliseconds
  calls,        \* the printPDFBuffer calls of concurrent requests
  disk          \* the temp files of concurrent requests and whose buffer each holds

envVars == <<variant, tmpExists, platform, op, body>>

genVars == <<maxRetries, retryCount, browser, completion, launched, open,
             closeCalls, attempts, genResult>>

dispVars == <<tempFile, files, execs, netCalls, execResult, httpResult, ret>>

concVars == <<now, calls, disk>>

vars == <<variant, tmpExists, platform, op, pc, body, templateData, maxRetries,
          retryCount, browser, completion, launched, open, closeCalls, attempts,
          genResult, tempFile, files, execs, netCalls, execResult, httpResult,
          ret, response, trace, now, calls, disk>>

(***************************************************************************)
(* Values                                                                  *)
(***************************************************************************)
Variants == {"template", "receipt", "cloud"}

Platforms == {"darwin", "linux", "win32", "freebsd"}

\* generatePDF(templateData, maxRetries = 3)
DefaultMaxRetries == 3

\* setTimeout(resolve, 2000)
RetryDelayMs == 2000

\* const PRINTNODE_API_KEY = "..." (a non-empty literal)
PRINTNODE_API_KEY == <<"r", "e", "w">>

Ev(e, n) == [e |-> e, n |-> n]

\* Messages are sequences of their parts; the empty sequence is the empty string.
MsgServerlessBuffer == <<"Printing is not supported in serverless environment.">>

MsgServerlessFile ==
  <<"Printing is not supported in serverless environment.",
    "Please download the PDF and print locally.">>

MsgSubmitted == <<"Print job submitted successfully">>

MsgGenerated == <<"PDF generated successfully">>

MsgNoKey == <<"PrintNode API key is not configured">>

MsgUnsupported(p) == <<"Unsupported platform: ", p>>

MsgFileNotFound == <<"File not found: ", "filePath">>

MsgPrintingError(detail) == <<"Printing error: ">> \o detail

\* What a call yields: a returned value or a thrown error.
NoValue == [type |-> "none", success |-> FALSE, message |-> <<>>, jobId |-> 0]

ObjResult(success, message) ==
  [type |-> "object", success |-> success, message |-> message, jobId |-> 0]

JobResult(message, jobId) ==
  [type |-> "object", success |-> TRUE, message |-> message, jobId |-> jobId]

BoolResult(b) ==
  [type |-> "boolean", success |-> b, message |-> <<>>, jobId |-> 0]

NullResult == [type |-> "null", success |-> FALSE, message |-> <<>>, jobId |-> 0]

Pending == [how |-> "pending", value |-> NoValue, error |-> <<>>]

Return(v) == [how |-> "return", value |-> v, error |-> <<>>]

Throw(msg) == [how |-> "throw", value |-> NoValue, error |-> msg]

NoResponse == [status |-> 0, success |-> FALSE, printResult |-> NullResult,
               message |-> <<>>, error |-> <<>>]

NoData == [built |-> FALSE, invoiceId |-> Undefined, customerName |-> Undefined,
           items |-> <<>>, total |-> <<>>, date |-> ""]

BufferValue == [type |-> "buffer", success |-> FALSE, message |-> <<>>, jobId |-> 0]

UndefinedValue ==
  [type |-> "undefined", success |-> FALSE, message |-> <<>>, jobId |-> 0]

\* What a promisified exec settles with: { stdout, stderr } on exit status 0,
\* an error otherwise.
NoExec == [how |-> "none", stderr |-> "", message |-> ""]

ExecResolved(stderr) == [how |-> "resolve", stderr |-> stderr, message |-> ""]

ExecRejected(message) == [how |-> "reject", stderr |-> "", message |-> message]

\* What axios.post settles with: a 2xx response whose data carries the job id,
\* or an error with the response of a non-2xx answer (remote is its
\* data.message, "" when it has none) or without any response.
NoHttp == [how |-> "none", id |-> 0, hasResponse |-> FALSE, remote |-> "",
           message |-> ""]

HttpResolved(id) == [how |-> "resolve", id |-> id, hasResponse |-> TRUE,
                     remote |-> "", message |-> ""]

HttpRejected(hasResponse, remote, message) ==
  [how |-> "reject", id |-> 0, hasResponse |-> hasResponse, remote |-> remote,
   message |-> message]

\* The file printPDF is asked to print, and the file printPDFBuffer writes:
\* path.join(os.tmpdir(), `temp-print-${Date.now()}.pdf`).
FilePath == <<"file", "filePath">>

TempName == <<"temp-print", "Date.now()">>

(***************************************************************************)
(* Inputs                                                                  *)
(***************************************************************************)
\* Longest item list drawn for the normalizer.
MaxItems == 2

\* Largest maxRetries a direct generatePDF call is given.
MaxRetriesArg == 3

RawItem(name, price, quantity) ==
  [name |-> name, price |-> price, quantity |-> quantity]

\* An input item with what its price (in mills) and quantity mean; bad marks a
\* malformed price or quantity.
Entry(item, p, q, badPrice, badQuantity) ==
  [item |-> item, p |-> p, q |-> q, badPrice |-> badPrice,
   badQuantity |-> badQuantity]

Widget == RawItem("Widget", StrV(<<"$", "1", "0", ".", "0", "0">>), StrV(<<"2">>))

Gadget == RawItem("Gadget", NumV(5000), StrV(<<"3">>))

WellFormedEntries ==
  { Entry(Widget, 10000, 2, FALSE, FALSE),
    Entry(Gadget, 5000, 3, FALSE, FALSE),
    Entry(RawItem("Eighth", StrV(<<"0", ".", "1", "2", "5">>), NumV(1000)),
          125, 1, FALSE, FALSE),
    Entry(RawItem("ThreeEighths", NumV(375), StrV(<<"3">>)), 375, 3, FALSE, FALSE),
    Entry(RawItem("Refund", StrV(<<"-", "3", ".", "5", "0">>), NumV(2000)),
          -3500, 2, FALSE, FALSE),
    Entry(RawItem("Free", StrV(ZeroString), StrV(<<"4">>)), 0, 4, FALSE, FALSE),
    Entry(RawItem("Grouped",
                  StrV(<<"U", "S", "D", " ", "1", ",", "2", "3", "4", ".", "5">>),
                  StrV(<<" ", "1", "0">>)),
          1234500, 10, FALSE, FALSE),
    Entry(RawItem("Cents", StrV(<<".", "9", "9">>), NumV(0)), 990, 0, FALSE, FALSE),
    Entry(RawItem("Returned", NumV(1250), NumV(-2000)), 1250, -2, FALSE, FALSE),
    Entry(RawItem("Credited", StrV(<<"2", ".", "5", "0">>), StrV(<<"-", "2">>)),
          2500, -2, FALSE, FALSE) }

MalformedEntries ==
  { Entry(RawItem("BadPrice", StrV(<<"a", "b", "c">>), StrV(<<"2">>)),
          0, 2, TRUE, FALSE),
    Entry(RawItem("EmptyPrice", StrV(<<>>), NumV(1000)), 0, 1, TRUE, FALSE),
    Entry(RawItem("NoPrice", Undefined, StrV(<<"2">>)), 0, 2, TRUE, FALSE),
    Entry(RawItem("BadQuantity", StrV(<<"$", "1", "0", ".", "0", "0">>),
                  StrV(<<"a", "b", "c">>)),
          10000, 0, FALSE, TRUE),
    Entry(RawItem("NoQuantity", NumV(5000), Undefined), 5000, 0, FALSE, TRUE) }

Catalogue == WellFormedEntries \cup MalformedEntries

EntryOf(item) == CHOOSE c \in Catalogue : c.item = item

ItemLists ==
  UNION { [1..n -> {c.item : c \in Catalogue}] : n \in 0..MaxItems }

Items(list) == [present |-> TRUE, list |-> list]

NoItems == [present |-> FALSE, list |-> <<>>]

\* The item arrays a request of the pipeline carries.
PipelineItems ==
  { NoItems, Items(<<>>), Items(<<Widget, Gadget>>),
    Items(<<RawItem("BadPrice", StrV(<<"a", "b", "c">>), StrV(<<"2">>))>>) }

\* The print-target field: status (local servers) or printerId (cloud server).
Targets(v) ==
  IF v = "cloud" THEN {Undefined, NumV(0), NumV(7000)}
  ELSE {Undefined, BoolV(FALSE), BoolV(TRUE), StrV(<<"1">>)}

Body(invoiceId, customerName, items, target) ==
  [invoiceId |-> invoiceId, customerName |-> customerName, items |-> items,
   target |-> target]

InvoiceId == StrV(<<"I", "1">>)

CustomerName == StrV(<<"A", "n", "n">>)

\* All fields named, or one of invoiceId and customerName missing.
Named == { <<InvoiceId, CustomerName>>, <<Undefined, CustomerName>>,
           <<InvoiceId, Undefined>> }

NoBody == Body(Undefined, Undefined, NoItems, Undefined)

(***************************************************************************)
(* Initial states: one call of one entry point                             *)
(***************************************************************************)
Idle ==
  /\ templateData = NoData
  /\ retryCount = 0
  /\ browser = 0
  /\ completion = "normal"
  /\ launched = 0
  /\ open = {}
  /\ closeCalls = <<>>
  /\ attempts = 0
  /\ genResult = Pending
  /\ tempFile = <<>>
  /\ execs = <<>>
  /\ netCalls = <<>>
  /\ execResult = NoExec
  /\ httpResult = NoHttp
  /\ ret = Pending
  /\ response = NoResponse
  /\ trace = <<>>
  /\ now = 0
  /\ calls = <<>>
  /\ disk = {}

\* POST /api/printing
InitPost ==
  /\ op = "post" /\ pc = "h_start"
  /\ variant \in Variants
  /\ tmpExists \in BOOLEAN
  /\ platform \in Platforms
  /\ \E n \in Named, items \in PipelineItems, t \in Targets(variant) :
       body = Body(n[1], n[2], items, t)
  /\ maxRetries = DefaultMaxRetries
  /\ files = {}
  /\ Idle

\* generatePDF(templateData, maxRetries) called on its own
InitGenerate ==
  /\ op = "generatePDF"
  /\ variant \in Variants
  /\ pc = IF variant = "template" THEN "gen_loop" ELSE "gen_pdfkit"
  /\ tmpExists = TRUE /\ platform = "linux"
  /\ body = NoBody
  /\ maxRetries \in
       IF variant = "template" THEN -1..MaxRetriesArg ELSE {DefaultMaxRetries}
  /\ files = {}
  /\ Idle

\* printPDFBuffer(pdfBuffer, printerName | printerId) called on its own
InitPrintBuffer ==
  /\ op = "printPDFBuffer" /\ pc = "pb_start"
  /\ variant \in Variants
  /\ tmpExists \in BOOLEAN
  /\ platform \in Platforms
  /\ body = NoBody
  /\ maxRetries = DefaultMaxRetries
  /\ files = {}
  /\ Idle

\* printPDF(filePath, printerName), and the printPDF(filePath) that ends part_000
InitPrintFile ==
  /\ op \in {"printPDF", "printPDF1"}
  /\ pc = IF op = "printPDF" THEN "pp_start" ELSE "pl_start"
  /\ variant \in (IF op = "printPDF" THEN Variants ELSE {"template"})
  /\ tmpExists \in BOOLEAN
  /\ platform \in Platforms
  /\ body = NoBody
  /\ maxRetries = DefaultMaxRetries
  /\ files \in {{}, {FilePath}}
  /\ Idle

Init == InitPost \/ InitGenerate \/ InitPrintBuffer \/ InitPrintFile

(***************************************************************************)
(* POST /api/printing: the handler up to its call of generatePDF           *)
(***************************************************************************)
\* The success envelope with the fixed message whatever printResult is.
SuccessResponseGeneric(printResult) ==
  [status |-> 200, success |-> TRUE, printResult |-> printResult,
   message |-> <<"PDF generated successfully">>, error |-> <<>>]

SuccessResponse(printResult) ==
  [status      |-> 200,
   success     |-> TRUE,
   printResult |-> printResult,
   message     |-> IF printResult.type = "object" /\ printResult.message # <<>>
                   THEN printResult.message ELSE MsgGenerated,
   error       |-> <<>>]

\* A catch block that sends nothing.
ErrorResponseUnsent(msg) == NoResponse

ErrorResponse(msg) ==
  [status |-> 500, success |-> FALSE, printResult |-> NullResult,
   message |-> <<>>, error |-> msg]

MsgNotIterable == <<"Cannot read properties of undefined (reading 'map')">>

\* const { invoiceId, customerName, items, ... } = req.body; items.map(...);
\* the reduce; templateData; then generatePDF is entered.  items.map throws a
\* TypeError on a missing items, which the handler's catch answers.
HandlerStart ==
  /\ op = "post" /\ pc = "h_start"
  /\ IF ~body.items.present
     THEN /\ response' = ErrorResponse(MsgNotIterable)
          /\ pc' = "done"
          /\ trace' = trace \o <<Ev("respond", 500)>>
          /\ UNCHANGED templateData
     ELSE /\ templateData' =
               [built        |-> TRUE,
                invoiceId    |-> body.invoiceId,
                customerName |-> body.customerName,
                items        |-> itemsWithSubtotals(body.items.list),
                total        |-> calculatedTotal(itemsWithSubtotals(body.items.list)),
                date         |-> "toLocaleDateString"]
          /\ pc' = IF variant = "template" THEN "gen_loop" ELSE "gen_pdfkit"
          /\ trace' = trace \o <<Ev("normalize", 0), Ev("render", 0)>>
          /\ UNCHANGED response
  /\ UNCHANGED <<envVars, concVars, genVars, dispVars>>

(***************************************************************************)
(* generatePDF, part_000: puppeteer with retries                           *)
(***************************************************************************)
\* if (retryCount === maxRetries)
exhaustedAtLeast(count, max) == count >= max - 1

exhausted(count, max) == count = max

\* The catch block without its await of the timer.
CatchBlockNoWait(msg) ==
  /\ retryCount' = retryCount + 1
  /\ IF exhausted(retryCount + 1, maxRetries)
     THEN /\ completion' = "throw"
          /\ genResult' =
               Throw(<<"Failed to generate PDF after ", ToString(maxRetries),
                       " attempts: ", msg>>)
     ELSE /\ completion' = "normal"
          /\ genResult' = genResult
  /\ pc' = "gen_finally"

\* The catch block up to its throw or its await of the timer.
CatchBlock(msg) ==
  /\ retryCount' = retryCount + 1
  /\ IF exhausted(retryCount + 1, maxRetries)
     THEN /\ completion' = "throw"
          /\ genResult' =
               Throw(<<"Failed to generate PDF after ", ToString(maxRetries),
                       " attempts: ", msg>>)
          /\ pc' = "gen_finally"
     ELSE /\ completion' = "normal"
          /\ genResult' = genResult
          /\ pc' = "gen_wait"

\* while (retryCount < maxRetries); falling out of the loop returns undefined.
GenLoop ==
  /\ pc = "gen_loop"
  /\ IF retryCount < maxRetries
     THEN /\ pc' = "gen_try"
          /\ attempts' = attempts + 1
          /\ trace' = trace \o <<Ev("attempt", attempts + 1)>>
          /\ UNCHANGED genResult
     ELSE /\ pc' = "gen_done"
          /\ genResult' = Return(UndefinedValue)
          /\ UNCHANGED <<attempts, trace>>
  /\ UNCHANGED <<envVars, concVars, dispVars, templateData, maxRetries, retryCount, browser,
                 completion, launched, open, closeCalls, response>>

\* fs.readFileSync of the template, Handlebars.compile, compiledTemplate(data)
GenTry ==
  /\ pc = "gen_try"
  /\ \E ok \in BOOLEAN :
       IF ok
       THEN /\ pc' = "gen_launch"
            /\ UNCHANGED <<retryCount, completion, genResult>>
       ELSE CatchBlock("ENOENT: no such file or directory")
  /\ UNCHANGED <<envVars, concVars, dispVars, templateData, maxRetries, browser, launched,
                 open, closeCalls, attempts, response, trace>>

\* browser = await puppeteer.launch(...)
GenLaunch ==
  /\ pc = "gen_launch"
  /\ \E ok \in BOOLEAN :
       IF ok
       THEN /\ launched' = launched + 1
            /\ browser' = launched + 1
            /\ open' = open \cup {launched + 1}
            /\ closeCalls' = Append(closeCalls, 0)
            /\ trace' = trace \o <<Ev("launch", launched + 1)>>
            /\ pc' = "gen_load"
            /\ UNCHANGED <<retryCount, completion, genResult>>
       ELSE /\ CatchBlock("Failed to launch the browser process")
            /\ UNCHANGED <<launched, browser, open, closeCalls, trace>>
  /\ UNCHANGED <<envVars, concVars, dispVars, templateData, maxRetries, attempts, response>>

\* browser.newPage(), page.setViewport(...), page.setContent(html, ...)
GenLoad ==
  /\ pc = "gen_load"
  /\ \E ok \in BOOLEAN :
       IF ok
       THEN /\ pc' = "gen_export"
            /\ UNCHANGED <<retryCount, completion, genResult>>
       ELSE CatchBlock("Navigation timeout of 60000 ms exceeded")
  /\ UNCHANGED <<envVars, concVars, dispVars, templateData, maxRetries, browser, launched,
                 open, closeCalls, attempts, response, trace>>

\* const pdfBuffer = await page.pdf(...); return pdfBuffer;
GenExport ==
  /\ pc = "gen_export"
  /\ \E ok \in BOOLEAN :
       IF ok
       THEN /\ completion' = "return"
            /\ genResult' = Return(BufferValue)
            /\ pc' = "gen_finally"
            /\ UNCHANGED retryCount
       ELSE CatchBlock("Printing failed")
  /\ UNCHANGED <<envVars, concVars, dispVars, templateData, maxRetries, browser, launched,
                 open, closeCalls, attempts, response, trace>>

\* await new Promise((resolve) => setTimeout(resolve, 2000))
GenWait ==
  /\ pc = "gen_wait"
  /\ trace' = trace \o <<Ev("wait", RetryDelayMs)>>
  /\ pc' = "gen_finally"
  /\ UNCHANGED <<envVars, concVars, genVars, dispVars, templateData, response>>

\* if (browser)
shouldCloseNever(b) == FALSE

shouldClose(b) == b # 0

\* finally { if (browser) { try { await browser.close() } catch { log } } },
\* then the try statement completes: return, throw, or on to the loop test.
GenFinally ==
  /\ pc = "gen_finally"
  /\ IF shouldClose(browser)
     THEN \E closed \in BOOLEAN :
            /\ closeCalls' = [closeCalls EXCEPT ![browser] = @ + 1]
            /\ open' = IF closed THEN open \ {browser} ELSE open
            /\ trace' = trace \o (IF closed THEN <<Ev("close", browser)>>
                                  ELSE <<Ev("close", browser),
                                         Ev("close failed", browser)>>)
     ELSE UNCHANGED <<closeCalls, open, trace>>
  /\ pc' = IF completion = "normal" THEN "gen_loop" ELSE "gen_done"
  /\ UNCHANGED <<envVars, concVars, dispVars, templateData, maxRetries, retryCount, browser,
                 completion, launched, attempts, genResult, response>>

(***************************************************************************)
(* generatePDF, part_001 and index.js: pdfkit                              *)
(***************************************************************************)
\* new Promise: resolve(Buffer.concat(chunks)) on "end", reject(error) on a throw
GenPdfkit ==
  /\ pc = "gen_pdfkit"
  /\ \E ok \in BOOLEAN :
       genResult' = IF ok THEN Return(BufferValue) ELSE Throw(<<"pdfkit error">>)
  /\ pc' = "gen_done"
  /\ UNCHANGED <<envVars, concVars, dispVars, templateData, maxRetries, retryCount, browser,
                 completion, launched, open, closeCalls, attempts, response, trace>>

(***************************************************************************)
(* POST /api/printing: after generatePDF                                   *)
(***************************************************************************)
\* if (status) / if (printerId)
shouldDispatchAlways(b) == TRUE

shouldDispatch(b) == Truthy(b.target)

\* A rejected generatePDF reaches the handler's catch.
renderFailedNever(result) == FALSE

renderFailed(result) == result.how = "throw"

HandlerAfterRender ==
  /\ op = "post" /\ pc = "gen_done"
  /\ IF renderFailed(genResult)
     THEN /\ response' = ErrorResponse(genResult.error)
          /\ pc' = "done"
          /\ trace' = trace \o <<Ev("respond", 500)>>
     ELSE IF shouldDispatch(body)
     THEN /\ pc' = "pb_start"
          /\ trace' = trace \o <<Ev("rendered", 0), Ev("dispatch", 0)>>
          /\ UNCHANGED response
     ELSE /\ response' = SuccessResponse(NullResult)
          /\ pc' = "done"
          /\ trace' = trace \o <<Ev("rendered", 0), Ev("respond", 200)>>
  /\ UNCHANGED <<envVars, concVars, genVars, dispVars, templateData>>

\* The response built from what the dispatcher returned.
respondAfterDispatchStrict(printResult) ==
  IF printResult.success THEN SuccessResponse(printResult)
  ELSE ErrorResponse(printResult.message)

respondAfterDispatch(printResult) == SuccessResponse(printResult)

HandlerAfterDispatch ==
  /\ op = "post" /\ pc = "pb_done"
  /\ response' = IF ret.how = "throw" THEN ErrorResponse(ret.error)
                 ELSE respondAfterDispatch(ret.value)
  /\ trace' = trace \o <<Ev("respond", IF ret.how = "throw" THEN 500 ELSE 200)>>
  /\ pc' = "done"
  /\ UNCHANGED <<envVars, concVars, genVars, dispVars, templateData>>

(***************************************************************************)
(* printPDFBuffer, part_000 and part_001: local printing                   *)
(***************************************************************************)
\* part_000: lp on darwin and linux; part_001: lpr on darwin, lp on linux.
PrintCommand(v, p) ==
  IF p = "darwin" THEN (IF v = "receipt" THEN "lpr" ELSE "lp")
  ELSE IF p = "linux" THEN "lp"
  ELSE IF p = "win32" THEN "powershell"
  ELSE "none"

\* catch (error) { return { success: false, message: `Printing error: ...` } }
printPDFBufferCatch(msg) == Return(ObjResult(FALSE, MsgPrintingError(<<msg>>)))

\* The guard, fs.writeFileSync(tempFile, pdfBuffer) and the choice of command.
PBLocalStart ==
  /\ pc = "pb_start" /\ variant \in {"template", "receipt"}
  /\ IF ~tmpExists
     THEN /\ ret' = Return(ObjResult(FALSE, MsgServerlessBuffer))
          /\ pc' = "pb_done"
          /\ UNCHANGED <<tempFile, files>>
     ELSE \E written \in BOOLEAN :
            IF ~written
            THEN /\ ret' = printPDFBufferCatch("EACCES: permission denied")
                 /\ pc' = "pb_done"
                 /\ tempFile' = TempName
                 /\ UNCHANGED files
            ELSE /\ tempFile' = TempName
                 /\ files' = files \cup {TempName}
                 /\ IF PrintCommand(variant, platform) = "none"
                    THEN /\ ret' = Return(ObjResult(FALSE, MsgUnsupported(platform)))
                         /\ pc' = "pb_done"
                    ELSE /\ pc' = "pb_exec"
                         /\ UNCHANGED ret
  /\ UNCHANGED <<envVars, concVars, genVars, templateData, execs, netCalls,
                 execResult, httpResult, response, trace>>

Stderr == "lp: Error - The printer or class does not exist."

\* The ways the print command ends: exit status 0 with or without output on
\* standard error, or a failure of the command.
ExecOutcomes ==
  {ExecResolved(""), ExecResolved(Stderr), ExecRejected("Command failed")}

\* if (stderr)
stderrFailsNever(result) == FALSE

stderrFails(result) == result.stderr # ""

\* Where printPDFBuffer goes once execAsync has settled: every branch returns.
afterExecRetry(result) == IF result.how = "reject" THEN "pb_exec" ELSE "pb_done"

afterExec(result) == "pb_done"

\* await execAsync(command), fs.unlinkSync(tempFile) in its own try, the
\* stderr test.  A rejected exec leaves the try block for the catch.
PBLocalExec ==
  /\ pc = "pb_exec"
  /\ execs' = Append(execs, PrintCommand(variant, platform))
  /\ \E result \in ExecOutcomes, unlinked \in BOOLEAN :
       /\ execResult' = result
       /\ pc' = afterExec(result)
       /\ IF result.how = "reject"
          THEN /\ ret' = printPDFBufferCatch(result.message)
               /\ UNCHANGED <<files, trace>>
          ELSE /\ files' = IF unlinked THEN files \ {tempFile} ELSE files
               /\ trace' = IF unlinked THEN trace
                           ELSE trace \o <<Ev("unlink failed", 0)>>
               /\ ret' = IF stderrFails(result)
                         THEN Return(ObjResult(FALSE,
                                               MsgPrintingError(<<result.stderr>>)))
                         ELSE Return(ObjResult(TRUE, MsgSubmitted))
  /\ UNCHANGED <<envVars, concVars, genVars, templateData, tempFile, netCalls,
                 httpResult, response>>

(***************************************************************************)
(* printPDFBuffer, part_000 and part_001, called by two requests at once   *)
(***************************************************************************)
\* The latest reading of the clock in a run.
MaxClock == 2

Requests == {1, 2}

\* path.join(os.tmpdir(), `temp-print-${Date.now()}.pdf`)
TempNameAt(t) == <<"temp-print", t>>

\* One call: where it is, its tempFile, whose buffer its print command read
\* (0: none), what the command settled with, and what the call returned.
NoCall == [pc |-> "pb_start", tempFile |-> <<>>, printed |-> 0,
           result |-> NoExec, ret |-> Pending]

\* A file of the temp directory: its name and the request whose buffer it holds.
File(name, data) == [name |-> name, data |-> data]

FilesNamed(name) == {f \in disk : f.name = name}

\* The clock advances between any two steps.
Tick ==
  /\ op = "concurrent" /\ now < MaxClock
  /\ now' = now + 1
  /\ UNCHANGED <<envVars, genVars, dispVars, pc, templateData, response, trace,
                 calls, disk>>

\* The guard, fs.writeFileSync(tempFile, pdfBuffer), the choice of the command
\* and the start of the subprocess, up to the await.
CallStart(r) ==
  /\ op = "concurrent" /\ calls[r].pc = "pb_start"
  /\ IF ~tmpExists
     THEN /\ calls' = [calls EXCEPT ![r].pc = "pb_done",
                         ![r].ret = Return(ObjResult(FALSE, MsgServerlessBuffer))]
          /\ UNCHANGED disk
     ELSE \E written \in BOOLEAN :
            IF ~written
            THEN /\ calls' = [calls EXCEPT ![r].pc = "pb_done",
                                ![r].tempFile = TempNameAt(now),
                                ![r].ret = printPDFBufferCatch("EACCES: permission denied")]
                 /\ UNCHANGED disk
            ELSE /\ disk' = (disk \ FilesNamed(TempNameAt(now)))
                               \cup {File(TempNameAt(now), r)}
                 /\ calls' =
                      IF PrintCommand(variant, platform) = "none"
                      THEN [calls EXCEPT ![r].pc = "pb_done",
                              ![r].tempFile = TempNameAt(now),
                              ![r].ret = Return(ObjResult(FALSE, MsgUnsupported(platform)))]
                      ELSE [calls EXCEPT ![r].pc = "pb_exec",
                              ![r].tempFile = TempNameAt(now)]
  /\ UNCHANGED <<envVars, genVars, dispVars, pc, templateData, response, trace, now>>

\* The subprocess opens the file its command line names: it prints what the
\* file holds then, and fails when the file is gone.
CallRun(r) ==
  /\ op = "concurrent" /\ calls[r].pc = "pb_exec"
  /\ IF FilesNamed(calls[r].tempFile) = {}
     THEN calls' = [calls EXCEPT ![r].pc = "pb_await",
                      ![r].result = ExecRejected("Command failed")]
     ELSE \E f \in FilesNamed(calls[r].tempFile), result \in ExecOutcomes :
            calls' = [calls EXCEPT ![r].pc = "pb_await",
                        ![r].printed = f.data,
                        ![r].result = result]
  /\ UNCHANGED <<envVars, genVars, dispVars, pc, templateData, response, trace,
                 now, disk>>

\* execAsync settles: fs.unlinkSync(tempFile) in its own try, the stderr
\* test, the return; a rejection goes to the catch without the unlink.
CallSettle(r) ==
  /\ op = "concurrent" /\ calls[r].pc = "pb_await"
  /\ LET result == calls[r].result
     IN IF result.how = "reject"
        THEN /\ calls' = [calls EXCEPT ![r].pc = "pb_done",
                            ![r].ret = printPDFBufferCatch(result.message)]
             /\ UNCHANGED disk
        ELSE /\ disk' = disk \ FilesNamed(calls[r].tempFile)
             /\ calls' =
                  [calls EXCEPT ![r].pc = "pb_done",
                     ![r].ret = IF stderrFails(result)
                                THEN Return(ObjResult(FALSE,
                                              MsgPrintingError(<<result.stderr>>)))
                                ELSE Return(ObjResult(TRUE, MsgSubmitted))]
  /\ UNCHANGED <<envVars, genVars, dispVars, pc, templateData, response, trace, now>>

(***************************************************************************)
(* printPDFBuffer, index.js: PrintNode                                     *)
(***************************************************************************)
\* The job ids the remote service may assign.
RemoteJobIds == {101, 102}

\* The key test, the base64 payload, and axios.post issued.
PBCloudStart ==
  /\ pc = "pb_start" /\ variant = "cloud"
  /\ IF PRINTNODE_API_KEY = <<>>
     THEN /\ ret' = Return(ObjResult(FALSE, MsgPrintingError(MsgNoKey)))
          /\ pc' = "pb_done"
          /\ UNCHANGED netCalls
     ELSE /\ netCalls' = Append(netCalls, "POST /printjobs")
          /\ pc' = "pb_http"
          /\ UNCHANGED ret
  /\ UNCHANGED <<envVars, concVars, genVars, templateData, tempFile, files, execs,
                 execResult, httpResult, response, trace>>

\* The ways axios.post ends: 2xx, non-2xx with or without a message in its
\* body, or no response at all.
HttpOutcomes ==
  {HttpResolved(id) : id \in RemoteJobIds}
    \cup {HttpRejected(TRUE, "Printer not found", "Request failed with status code 404"),
          HttpRejected(TRUE, "", "Request failed with status code 500"),
          HttpRejected(FALSE, "", "connect ECONNREFUSED")}

\* error.response?.data?.message || error.message
errorMessageLocal(error) == error.message

errorMessage(error) ==
  IF error.hasResponse /\ error.remote # "" THEN error.remote ELSE error.message

PBCloudResponse ==
  /\ pc = "pb_http"
  /\ \E result \in HttpOutcomes :
       /\ httpResult' = result
       /\ ret' = IF result.how = "resolve"
                 THEN Return(JobResult(MsgSubmitted, result.id))
                 ELSE Return(ObjResult(FALSE,
                                       MsgPrintingError(<<errorMessage(result)>>)))
  /\ pc' = "pb_done"
  /\ UNCHANGED <<envVars, concVars, genVars, templateData, tempFile, files, execs,
                 netCalls, execResult, response, trace>>

(***************************************************************************)
(* printPDF(filePath, printerName): the same in the three files            *)
(***************************************************************************)
FilePrintCommand(p) ==
  IF p \in {"darwin", "linux"} THEN "lp"
  ELSE IF p = "win32" THEN "powershell"
  ELSE "none"

PrintPDFStart ==
  /\ pc = "pp_start"
  /\ IF ~tmpExists
     THEN ret' = Return(ObjResult(FALSE, MsgServerlessFile)) /\ pc' = "pp_done"
     ELSE IF FilePath \notin files
     THEN ret' = Return(ObjResult(FALSE, MsgFileNotFound)) /\ pc' = "pp_done"
     ELSE IF FilePrintCommand(platform) = "none"
     THEN ret' = Return(ObjResult(FALSE, MsgUnsupported(platform))) /\ pc' = "pp_done"
     ELSE pc' = "pp_exec" /\ UNCHANGED ret
  /\ UNCHANGED <<envVars, concVars, genVars, templateData, tempFile, files, execs,
                 netCalls, execResult, httpResult, response, trace>>

\* await execAsync(command) and the stderr test
PrintPDFExec ==
  /\ pc = "pp_exec"
  /\ execs' = Append(execs, FilePrintCommand(platform))
  /\ \E result \in ExecOutcomes :
       /\ execResult' = result
       /\ IF result.how = "reject"
          THEN ret' = Return(ObjResult(FALSE, MsgPrintingError(<<result.message>>)))
               /\ pc' = "pp_done"
          ELSE IF stderrFails(result)
          THEN ret' = Return(ObjResult(FALSE, MsgPrintingError(<<result.stderr>>)))
               /\ pc' = "pp_done"
          ELSE IF platform \in {"darwin", "linux"}
          THEN pc' = "pp_lpq" /\ UNCHANGED ret
          ELSE ret' = Return(ObjResult(TRUE, MsgSubmitted)) /\ pc' = "pp_done"
  /\ UNCHANGED <<envVars, concVars, genVars, templateData, tempFile, files, netCalls,
                 httpResult, response, trace>>

\* await execAsync("lpq"), inside the same try block
PrintPDFQueue ==
  /\ pc = "pp_lpq"
  /\ execs' = Append(execs, "lpq")
  /\ \E ok \in BOOLEAN :
       ret' = IF ok THEN Return(ObjResult(TRUE, MsgSubmitted))
              ELSE Return(ObjResult(FALSE, MsgPrintingError(<<"Command failed">>)))
  /\ pc' = "pp_done"
  /\ UNCHANGED <<envVars, concVars, genVars, templateData, tempFile, files, netCalls,
                 execResult, httpResult, response, trace>>

(***************************************************************************)
(* printPDF(filePath), part_000 lines 326-360: returns true or false       *)
(***************************************************************************)
PrintPDF1Start ==
  /\ pc = "pl_start"
  /\ IF FilePath \notin files
     THEN ret' = Return(BoolResult(FALSE)) /\ pc' = "pl_done"
     ELSE pc' = "pl_exec" /\ UNCHANGED ret
  /\ UNCHANGED <<envVars, concVars, genVars, templateData, tempFile, files, execs,
                 netCalls, execResult, httpResult, response, trace>>

PrintPDF1Exec ==
  /\ pc = "pl_exec"
  /\ execs' = Append(execs, "lp")
  /\ \E result \in ExecOutcomes :
       /\ execResult' = result
       /\ IF result.how = "resolve" /\ ~stderrFails(result)
          THEN pc' = "pl_lpq" /\ UNCHANGED ret
          ELSE ret' = Return(BoolResult(FALSE)) /\ pc' = "pl_done"
  /\ UNCHANGED <<envVars, concVars, genVars, templateData, tempFile, files, netCalls,
                 httpResult, response, trace>>

PrintPDF1Queue ==
  /\ pc = "pl_lpq"
  /\ execs' = Append(execs, "lpq")
  /\ \E ok \in BOOLEAN : ret' = Return(BoolResult(ok))
  /\ pc' = "pl_done"
  /\ UNCHANGED <<envVars, concVars, genVars, templateData, tempFile, files, netCalls,
                 execResult, httpResult, response, trace>>

(***************************************************************************)
(* Specifications                                                          *)
(***************************************************************************)
Next ==
  \/ HandlerStart
  \/ GenLoop
  \/ GenTry
  \/ GenLaunch
  \/ GenLoad
  \/ GenExport
  \/ GenWait
  \/ GenFinally
  \/ GenPdfkit
  \/ HandlerAfterRender
  \/ HandlerAfterDispatch
  \/ PBLocalStart
  \/ PBLocalExec
  \/ PBCloudStart
  \/ PBCloudResponse
  \/ PrintPDFStart
  \/ PrintPDFExec
  \/ PrintPDFQueue
  \/ PrintPDF1Start
  \/ PrintPDF1Exec
  \/ PrintPDF1Queue

Spec == Init /\ [][Next]_vars

\* The normalizer on every item list up to MaxItems items.
InitMoney ==
  /\ op = "post" /\ pc = "h_start"
  /\ variant \in Variants
  /\ tmpExists = TRUE /\ platform = "linux"
  /\ \E items \in {Items(l) : l \in ItemLists} \cup {NoItems} :
       body = Body(InvoiceId, CustomerName, items, Undefined)
  /\ maxRetries = DefaultMaxRetries
  /\ files = {}
  /\ Idle

SpecMoney == InitMoney /\ [][HandlerStart]_vars

\* Two requests of a local server whose handlers have reached printPDFBuffer.
InitConcurrent ==
  /\ op = "concurrent" /\ pc = "calls"
  /\ variant \in {"template", "receipt"}
  /\ tmpExists \in BOOLEAN
  /\ platform \in Platforms
  /\ body = NoBody
  /\ maxRetries = DefaultMaxRetries
  /\ files = {}
  /\ templateData = NoData /\ retryCount = 0 /\ browser = 0
  /\ completion = "normal" /\ launched = 0 /\ open = {} /\ closeCalls = <<>>
  /\ attempts = 0 /\ genResult = Pending
  /\ tempFile = <<>> /\ execs = <<>> /\ netCalls = <<>>
  /\ execResult = NoExec /\ httpResult = NoHttp /\ ret = Pending
  /\ response = NoResponse /\ trace = <<>>
  /\ now = 0
  /\ calls = [r \in Requests |-> NoCall]
  /\ disk = {}

NextConcurrent ==
  \/ Tick
  \/ \E r \in Requests : CallStart(r)
  \/ \E r \in Requests : CallRun(r)
  \/ \E r \in Requests : CallSettle(r)

SpecConcurrent == InitConcurrent /\ [][NextConcurrent]_vars

\* One POST /api/printing request, every await of which settles.
NextRequest ==
  \/ HandlerStart
  \/ GenLoop
  \/ GenTry
  \/ GenLaunch
  \/ GenLoad
  \/ GenExport
  \/ GenWait
  \/ GenFinally
  \/ GenPdfkit
  \/ HandlerAfterRender
  \/ PBLocalStart
  \/ PBLocalExec
  \/ PBCloudStart
  \/ PBCloudResponse
  \/ HandlerAfterDispatch

\* The steps of a request that follow an await.
Awaited ==
  \/ GenLoop
  \/ GenTry
  \/ GenLaunch
  \/ GenLoad
  \/ GenExport
  \/ GenWait
  \/ GenFinally
  \/ GenPdfkit
  \/ HandlerAfterRender
  \/ PBLocalStart
  \/ PBLocalExec
  \/ PBCloudStart
  \/ PBCloudResponse
  \/ HandlerAfterDispatch

\* The handler's synchronous start leaves h_start: HandlerStart can be taken
\* whenever the request is there, and no other step can.
Started == op = "post" /\ pc = "h_start" /\ pc' \in {"done", "gen_loop", "gen_pdfkit"}

SpecRequest ==
  InitPost /\ [][NextRequest]_vars /\ WF_pc(Started) /\ WF_vars(Awaited)

\* One generatePDF call of the template renderer, every await of which settles.
InitRender ==
  /\ InitGenerate
  /\ variant = "template"

NextRender ==
  \/ GenLoop
  \/ GenTry
  \/ GenLaunch
  \/ GenLoad
  \/ GenExport
  \/ GenWait
  \/ GenFinally

SpecRender == InitRender /\ [][NextRender]_vars /\ WF_vars(NextRender)

(***************************************************************************)
(* Properties                                                              *)
(***************************************************************************)
HasEvent(e) == \E i \in 1..Len(trace) : trace[i].e = e

Position(ev) == CHOOSE i \in 1..Len(trace) : trace[i] = ev

WaitsIn(i, j) == Cardinality({x \in i..j : trace[x].e = "wait"})

Dispatched == pc \in {"pb_start", "pb_exec", "pb_http", "pb_done"} \/ ret # Pending

\* C1: a POST /api/printing whose generatePDF returned is answered 200 with
\* success = true whatever the dispatcher returned; a failed dispatch shows
\* only as printResult.success = false inside that response.
C1_RenderedRequestSucceeds ==
  (op = "post" /\ genResult.how = "return") =>
    /\ response.status \in {0, 200}
    /\ pc = "done" =>
         /\ response.status = 200 /\ response.success
         /\ ret.how \in {"pending", "return"}
         /\ ret.how = "return" => response.printResult = ret.value

C1_Witness ==
  /\ op = "post" /\ pc = "done" /\ genResult.how = "return"
  /\ ret.how = "return" /\ ~ret.value.success
  /\ response.success /\ ~response.printResult.success

\* C2: every dispatch function (printPDFBuffer local and cloud, printPDF) ends
\* by returning an object with a boolean success and a message string; none
\* throws.
C2_DispatchReturnsResultObject ==
  ret # Pending =>
    /\ ret.how = "return"
    /\ ret.value.type = "object"
    /\ ret.value.success \in BOOLEAN
    /\ ret.value.message # <<>>

\* C3: when every attempt of the template generatePDF fails, it has made
\* exactly maxRetries attempts, waited the 2000 ms delay once between each two
\* consecutive attempts and not after the last, and called close on every
\* engine instance it launched, before the error leaves generatePDF.
C3_RetriesDelaysAndTeardown ==
  (variant = "template" /\ genResult.how = "throw" /\ pc # "gen_finally") =>
    /\ attempts = maxRetries
    /\ \A k \in 1..maxRetries : \E i \in 1..Len(trace) : trace[i] = Ev("attempt", k)
    /\ \A k \in 1..(maxRetries - 1) :
         /\ WaitsIn(Position(Ev("attempt", k)), Position(Ev("attempt", k + 1))) = 1
         /\ \A x \in Position(Ev("attempt", k))..Position(Ev("attempt", k + 1)) :
              trace[x].e = "wait" => trace[x].n = RetryDelayMs
    /\ WaitsIn(Position(Ev("attempt", maxRetries)), Len(trace)) = 0
    /\ \A b \in 1..launched :
         /\ closeCalls[b] >= 1
         /\ \E x \in 1..Len(trace) :
              trace[x] = Ev("close", b) /\ x > Position(Ev("launch", b))

C3_Witness ==
  /\ variant = "template" /\ genResult.how = "throw" /\ pc = "gen_done"
  /\ maxRetries = DefaultMaxRetries /\ launched = maxRetries
  /\ \A b \in 1..launched : closeCalls[b] >= 1

\* C4: once a local printPDFBuffer call has returned, the temporary file it
\* wrote no longer exists (no failure of the unlink itself being involved).
C4_TempFileRemoved ==
  (variant # "cloud" /\ ret # Pending /\ ~HasEvent("unlink failed")) =>
    TempName \notin files

RetrieveHint == "Please download the PDF and print locally."

\* C5: without /tmp, local printPDFBuffer and printPDF return success = false
\* with a message telling the caller to retrieve the document, and neither
\* write a temp file nor execute a subprocess.
C5_ServerlessDispatch ==
  (~tmpExists /\ ret # Pending /\ op \in {"printPDFBuffer", "printPDF"}
     /\ (op = "printPDFBuffer" => variant # "cloud")) =>
    /\ ret.how = "return" /\ ~ret.value.success
    /\ \E i \in 1..Len(ret.value.message) : ret.value.message[i] = RetrieveHint
    /\ TempName \notin files
    /\ execs = <<>>

\* C6: a request without a print target whose rendering succeeds is answered
\* success = true with a null printResult; no temp file is written, no print
\* subprocess is executed and no network call is made during it.
C6_NoTargetNoDispatch ==
  (op = "post" /\ ~Truthy(body.target)) =>
    /\ files = {} /\ tempFile = <<>> /\ execs = <<>> /\ netCalls = <<>>
    /\ ret = Pending
    /\ (pc = "done" /\ genResult.how = "return") =>
         /\ response.status = 200 /\ response.success
         /\ response.printResult = NullResult

C6_Witness ==
  /\ op = "post" /\ ~Truthy(body.target) /\ body.target # Undefined
  /\ pc = "done" /\ genResult.how = "return"
  /\ response.success /\ response.printResult = NullResult

\* What a fixed two-decimal string says, in hundredths.
IsFixed2(s) ==
  LET b == IF s # <<>> /\ s[1] = "-" THEN Tail(s) ELSE s
  IN /\ Len(b) >= 4
     /\ b[Len(b) - 2] = "."
     /\ \A i \in 1..Len(b) : i # Len(b) - 2 => IsDigit(b[i])

CentsOf(s) ==
  LET neg == s[1] = "-"
      b   == IF neg THEN Tail(s) ELSE s
      n   == Len(b)
      c   == DigitsVal(b, 1, n - 2) * 100 + DigitVal(b[n - 1]) * 10 + DigitVal(b[n])
  IN IF neg THEN -c ELSE c

\* A value in mills rounded to hundredths, halves away from zero.
RoundCents(m) ==
  IF m >= 0 THEN (m + 5) \div 10 ELSE -((5 - m) \div 10)

RECURSIVE SumCents(_, _)
SumCents(iws, k) ==
  IF k = 0 THEN 0 ELSE SumCents(iws, k - 1) + CentsOf(iws[k].subtotal)

WellFormed(list) ==
  \A i \in 1..Len(list) : \E c \in WellFormedEntries : c.item = list[i]

\* C7: for every list of well-formed items (prices as currency strings, plain
\* numeric strings or numbers; quantities as strings or numbers) each subtotal
\* is quantity x price to two decimals and the total is the sum of the
\* subtotals to two decimals; Widget $10.00 x 2 and Gadget 5 x 3 give 20.00,
\* 15.00 and 35.00.
C7_TotalIsSumOfSubtotals ==
  (templateData.built /\ WellFormed(body.items.list)) =>
    LET list == body.items.list
        iws  == templateData.items
    IN /\ Len(iws) = Len(list)
       /\ \A i \in 1..Len(list) :
            /\ IsFixed2(iws[i].subtotal)
            /\ CentsOf(iws[i].subtotal)
                 = RoundCents(EntryOf(list[i]).q * EntryOf(list[i]).p)
       /\ IsFixed2(templateData.total)
       /\ CentsOf(templateData.total) = SumCents(iws, Len(iws))
       /\ list = <<Widget, Gadget>> =>
            /\ iws[1].subtotal = <<"2", "0", ".", "0", "0">>
            /\ iws[2].subtotal = <<"1", "5", ".", "0", "0">>
            /\ templateData.total = <<"3", "5", ".", "0", "0">>

C7_Witness ==
  /\ templateData.built
  /\ Len(body.items.list) = 2
  /\ body.items.list[1].name = "ThreeEighths" /\ body.items.list[2] = Widget
  /\ templateData.items[1].subtotal = <<"1", ".", "1", "3">>
  /\ templateData.total = <<"2", "1", ".", "1", "3">>

\* C8: an item whose price or quantity is malformed (a non-numeric string, a
\* missing field) is normalized with 0 for that price or quantity, so its
\* subtotal is 0.00, and no not-a-number value is produced.
C8_MalformedYieldsZero ==
  templateData.built =>
    /\ \A i \in 1..Len(body.items.list) :
         LET c == EntryOf(body.items.list[i])
             r == templateData.items[i]
         IN /\ c.badPrice => r.price = ZeroString /\ r.subtotal = ZeroString
            /\ c.badQuantity => r.quantity = <<"0">> /\ r.subtotal = ZeroString
            /\ IsFixed2(r.price) /\ IsFixed2(r.subtotal)
    /\ IsFixed2(templateData.total)

MissingField ==
  ~body.items.present \/ body.invoiceId = Undefined \/ body.customerName = Undefined

\* C9: a POST /api/printing whose body lacks items, invoiceId or customerName
\* is answered with a 4xx error and a message, and neither the renderer nor
\* the dispatcher runs for it.
C9_MissingFieldRejected ==
  (op = "post" /\ MissingField) =>
    /\ ~HasEvent("render") /\ ~Dispatched
    /\ pc = "done" =>
         /\ response.status \in 400..499
         /\ ~response.success
         /\ response.error # <<>>

\* C10: within a request the dispatcher runs only after generatePDF returned a
\* buffer, the renderer only after normalization, and the response comes last;
\* if generatePDF fails the request ends with 500 {success: false, error} and
\* the dispatcher is never invoked.
C10_RenderBeforeDispatch ==
  op = "post" =>
    /\ (HasEvent("render") \/ genResult # Pending) => templateData.built
    /\ Dispatched => genResult = Return(BufferValue)
    /\ response # NoResponse => pc = "done"
    /\ (genResult.how = "throw" /\ pc \notin {"gen_finally", "gen_done"}) =>
         /\ pc = "done"
         /\ response.status = 500 /\ ~response.success
         /\ response.error = genResult.error
         /\ ~Dispatched /\ execs = <<>> /\ netCalls = <<>> /\ files = {}

C10_Witness ==
  /\ op = "post" /\ pc = "done" /\ genResult.how = "throw"
  /\ Truthy(body.target)
  /\ response.status = 500 /\ ~Dispatched

\* The message of the error generatePDF throws after its last attempt.
NamesMaxRetries(msg) ==
  /\ Len(msg) >= 3
  /\ msg[1] = "Failed to generate PDF after "
  /\ msg[2] = ToString(maxRetries)
  /\ msg[3] = " attempts: "

\* C11: a template generatePDF call given maxRetries >= 1 ends, after at most
\* maxRetries attempts: it returns the buffer of the first attempt that
\* succeeds (every attempt before it failed, none is started after it), an
\* attempt that fails with attempts remaining is followed by another attempt,
\* and it throws only when maxRetries attempts have failed, with a message
\* that names maxRetries.
C11_RenderStateMachine ==
  /\ [](maxRetries >= 1 =>
          /\ attempts <= maxRetries
          /\ retryCount <= attempts /\ attempts <= retryCount + 1
          /\ genResult.how = "return" =>
               /\ genResult.value = BufferValue
               /\ attempts = retryCount + 1
               /\ pc \in {"gen_finally", "gen_done"}
          /\ genResult.how = "throw" =>
               /\ attempts = maxRetries /\ retryCount = maxRetries
               /\ NamesMaxRetries(genResult.error)
               /\ pc \in {"gen_finally", "gen_done"}
          /\ pc = "gen_done" => genResult.how \in {"return", "throw"})
  /\ \A k \in 1..MaxRetriesArg :
       (pc = "gen_wait" /\ attempts = k) ~> (pc = "gen_try" /\ attempts = k + 1)
  /\ <>(pc = "gen_done")

C11_Witness ==
  /\ variant = "template" /\ op = "generatePDF" /\ pc = "gen_done"
  /\ maxRetries = DefaultMaxRetries
  /\ attempts = 2 /\ retryCount = 1
  /\ genResult = Return(BufferValue)

InFlight(r) == calls[r].pc \in {"pb_exec", "pb_await"}

\* C12: of two local dispatches in flight at once on one host, the temp files
\* are distinct: the file a call wrote is there, holding its own buffer, until
\* its print command has run, the command prints that buffer, and so neither
\* call changes what the other prints or returns.
C12_ConcurrentTempFilesDistinct ==
  op = "concurrent" =>
    \A r \in Requests :
      /\ \A q \in Requests \ {r} :
           (InFlight(r) /\ InFlight(q)) => calls[r].tempFile # calls[q].tempFile
      /\ calls[r].pc = "pb_exec" => File(calls[r].tempFile, r) \in disk
      /\ calls[r].pc \in {"pb_await", "pb_done"} => calls[r].printed \in {0, r}

\* C14: every canonical item has a quantity >= 0, whatever the input
\* quantity was (negative numbers and negative numeric strings included), and
\* its subtotal is that quantity x its price to two decimals (the prices of
\* claim C8 aside).
C14_QuantityNonNegative ==
  templateData.built =>
    \A i \in 1..Len(body.items.list) :
      LET c == EntryOf(body.items.list[i])
          r == templateData.items[i]
          q == ParseIntChars(r.quantity)
      IN /\ ~q.nan /\ q.m >= 0
         /\ ~c.badPrice =>
              /\ IsFixed2(r.subtotal)
              /\ CentsOf(r.subtotal) = RoundCents((q.m \div 1000) * c.p)

\* C15: a request whose items array is empty is normalized to no canonical
\* item and the total "0.00", the renderer is still invoked with that data,
\* and once it has produced the document the request is answered with
\* success = true.
C15_EmptyItems ==
  (op = "post" /\ body.items.present /\ body.items.list = <<>> /\ pc # "h_start") =>
    /\ templateData.built
    /\ templateData.items = <<>>
    /\ templateData.total = ZeroString
    /\ HasEvent("render")
    /\ pc \notin {"gen_loop", "gen_pdfkit"} => (attempts >= 1 \/ genResult # Pending)
    /\ (pc = "done" /\ genResult.how = "return") =>
         /\ genResult.value = BufferValue
         /\ response.status = 200 /\ response.success

C15_Witness ==
  /\ op = "post" /\ variant = "receipt" /\ pc = "done"
  /\ body.items.present /\ body.items.list = <<>>
  /\ templateData.total = ZeroString
  /\ genResult = Return(BufferValue)
  /\ response.status = 200 /\ response.success

\* C16: in cloud dispatch a rejected axios.post (no response, or a non-2xx
\* response) gives success = false with the remote service's message when the
\* response carries one and the local error message otherwise; a 2xx response
\* gives success = true with the job id the remote service returned.
C16_CloudResultFromReply ==
  (variant = "cloud" /\ httpResult # NoHttp) =>
    /\ ret.how = "return" /\ ret.value.type = "object"
    /\ httpResult.how = "reject" =>
         /\ ~ret.value.success
         /\ (httpResult.hasResponse /\ httpResult.remote # "") =>
              ret.value.message = <<"Printing error: ", httpResult.remote>>
         /\ ~(httpResult.hasResponse /\ httpResult.remote # "") =>
              ret.value.message = <<"Printing error: ", httpResult.message>>
    /\ httpResult.how = "resolve" =>
         /\ ret.value.success
         /\ ret.value.jobId = httpResult.id

C16_Witness ==
  /\ variant = "cloud" /\ op = "post" /\ pc = "done"
  /\ httpResult.how = "reject" /\ httpResult.remote = "Printer not found"
  /\ response.printResult.message = <<"Printing error: ", "Printer not found">>

\* C17: on darwin and linux, once the print command has ended with exit
\* status 0 and empty standard error, the dispatch returns success = true
\* whether the print-queue query (lpq) that follows succeeds or fails.
C17_QueueQueryNonFatal ==
  (op \in {"post", "printPDFBuffer", "printPDF"}
     /\ platform \in {"darwin", "linux"}
     /\ execResult = ExecResolved("") /\ ret # Pending) =>
    /\ ret.how = "return"
    /\ ret.value.success

\* C18: in local dispatch (printPDFBuffer, printPDF(filePath, printerName)) a
\* print command that wrote to standard error gives success = false with that
\* output in the message, exit status 0 included; success = true is returned
\* only when the command ended without error and with empty standard error,
\* and printPDFBuffer then always returns it.
C18_StderrIsFailure ==
  (op \in {"post", "printPDFBuffer", "printPDF"}
     /\ execResult # NoExec /\ ret # Pending) =>
    /\ ret.how = "return" /\ ret.value.type = "object"
    /\ (execResult.how = "resolve" /\ execResult.stderr # "") =>
         /\ ~ret.value.success
         /\ ret.value.message = <<"Printing error: ", execResult.stderr>>
    /\ ret.value.success =>
         (execResult.how = "resolve" /\ execResult.stderr = "")
    /\ (op # "printPDF" /\ execResult.how = "resolve" /\ execResult.stderr = "") =>
         ret.value.success

C18_Witness ==
  /\ op = "post" /\ pc = "done" /\ variant = "receipt" /\ platform = "darwin"
  /\ execResult = ExecResolved(Stderr)
  /\ ~response.printResult.success
  /\ response.printResult.message = <<"Printing error: ", Stderr>>

\* The engine instances on which close has not been called yet.
Unclosed == {b \in 1..launched : closeCalls[b] = 0}

\* C19: during a template generatePDF call at most one engine instance is
\* open (launched and not yet closed by the finally block) at any time: when
\* an attempt launches an instance, close has been called on every earlier
\* one, and on every instance once generatePDF has returned or thrown; the
\* instances running are exactly those, no close call having failed.
C19_OneEngineAtATime ==
  variant = "template" =>
    /\ Cardinality(Unclosed) <= 1
    /\ Unclosed \subseteq {launched}
    /\ Unclosed # {} => pc \in {"gen_load", "gen_export", "gen_wait", "gen_finally"}
    /\ genResult # Pending /\ pc # "gen_finally" => Unclosed = {}
    /\ ~HasEvent("close failed") => (open = Unclosed /\ Cardinality(open) <= 1)

C19_Witness ==
  /\ variant = "template" /\ pc = "gen_done" /\ genResult.how = "return"
  /\ launched = 2 /\ open = {}
  /\ closeCalls = <<1, 1>>

\* C20: in the template generatePDF close is called exactly once on each
\* engine instance launched, never again on an instance an earlier attempt
\* closed, also when a later attempt fails before its own launch.
C20_CloseOncePerInstance ==
  variant = "template" =>
    /\ \A b \in 1..launched : closeCalls[b] <= 1
    /\ (genResult # Pending /\ pc # "gen_finally") =>
         \A b \in 1..launched : closeCalls[b] = 1


\* C21: whatever maxRetries it is given, 0 and negative values included, the
\* template generatePDF ends by returning a PDF buffer or by throwing, never
\* by returning without a buffer; so no request is answered with success =
\* true without a document having been produced.
C21_BufferOrError ==
  variant = "template" =>
    /\ genResult.how = "return" => genResult.value = BufferValue
    /\ pc = "gen_done" => genResult.how \in {"return", "throw"}
    /\ (op = "post" /\ response.success) => genResult = Return(BufferValue)


\* The attempt under way has launched an engine instance of its own.
OwnInstance ==
  /\ attempts >= 1 /\ launched >= 1
  /\ \E i \in 1..Len(trace) :
       trace[i] = Ev("launch", launched) /\ i > Position(Ev("attempt", attempts))

\* C22: after a failed attempt that is not the last, the engine instance of
\* that attempt is still open and has had no close call while the 2000 ms
\* delay runs and when it is over; its close comes right after the delay, and
\* every launch after the first follows, with only the loop test and the
\* template read in between, a close of the previous instance that itself
\* follows the delay.
C22_CloseAfterDelay ==
  variant = "template" =>
    /\ ((pc = "gen_wait" \/ (pc = "gen_finally" /\ completion = "normal"))
          /\ OwnInstance) =>
         /\ browser = launched
         /\ launched \in open
         /\ closeCalls[launched] = 0
    /\ (pc = "gen_finally" /\ completion = "normal") =>
         trace[Len(trace)] = Ev("wait", RetryDelayMs)
    /\ \A j \in 1..Len(trace) :
         (trace[j].e = "launch" /\ trace[j].n >= 2) =>
           /\ j >= 4
           /\ trace[j - 1].e = "attempt"
           /\ LET c == IF trace[j - 2].e = "close failed" THEN j - 3 ELSE j - 2
              IN /\ c >= 2
                 /\ trace[c] = Ev("close", trace[j].n - 1)
                 /\ trace[c - 1] = Ev("wait", RetryDelayMs)

C22_Witness ==
  /\ variant = "template" /\ pc = "gen_load"
  /\ launched = 2 /\ open = {2} /\ closeCalls = <<1, 0>>
  /\ attempts = 2


\* The print jobs submitted so far: print commands executed (the queue query
\* is none) and POSTs to the cloud service.
PrintJobs ==
  Cardinality({i \in 1..Len(execs) : execs[i] # "lpq"}) + Len(netCalls)

DispatchCount == Cardinality({i \in 1..Len(trace) : trace[i].e = "dispatch"})

\* C23: a request invokes the dispatcher at most once, and a dispatch runs
\* its print command, or issues its POST, at most once, also when that
\* fails; so a request submits at most one print job.
C23_AtMostOnePrintJob ==
  /\ PrintJobs <= 1
  /\ op = "post" =>
       /\ DispatchCount <= 1
       /\ PrintJobs <= DispatchCount
       /\ pc = "done" => (DispatchCount = 1 <=> ret # Pending)

C23_Witness ==
  /\ op = "post" /\ pc = "done"
  /\ execResult.how = "reject" /\ Len(execs) = 1
  /\ ~response.printResult.success /\ response.printResult.type = "object"


\* C24: in a response with success = true the top-level message is
\* printResult.message whenever a dispatch was attempted, a failed one
\* included, and it is "PDF generated successfully" exactly when none was.
C24_MessageFromDispatch ==
  (op = "post" /\ response.success) =>
    /\ ret # Pending =>
         /\ response.printResult = ret.value
         /\ response.message = ret.value.message
    /\ ret = Pending => response.printResult = NullResult
    /\ (response.message = <<"PDF generated successfully">>) <=> (ret = Pending)

C24_Witness ==
  /\ op = "post" /\ pc = "done" /\ response.success
  /\ ret # Pending /\ ~ret.value.success
  /\ response.message = <<"Unsupported platform: ", "freebsd">>


RespondCount == Cardinality({i \in 1..Len(trace) : trace[i].e = "respond"})

SuccessEnvelope(r) == r.status = 200 /\ r.success /\ r.message # <<>>

ErrorEnvelope(r) == r.status = 500 /\ ~r.success /\ r.message = <<>>

\* C25: every POST /api/printing request, each of its awaits settling, comes
\* to its end with exactly one response sent, the success envelope or the 500
\* error envelope, on every path: never a second response, never both
\* envelopes, never none.
C25_ExactlyOneResponse ==
  /\ [](/\ RespondCount <= 1
        /\ RespondCount = 1 <=> response # NoResponse
        /\ response # NoResponse =>
             /\ pc = "done"
             /\ SuccessEnvelope(response) \/ ErrorEnvelope(response)
             /\ ~(SuccessEnvelope(response) /\ ErrorEnvelope(response))
        /\ pc = "done" => response # NoResponse)
  /\ <>(pc = "done" /\ RespondCount = 1)

C25_Witness ==
  /\ op = "post" /\ variant = "template" /\ pc = "done"
  /\ attempts = DefaultMaxRetries /\ genResult.how = "throw"
  /\ response.status = 500 /\ RespondCount = 1

====
